---- MODULE Spec2Model ----
(***************************************************************************)
(* A model of StaticAnalysis/code/analyze.py (CodeGuard): the function     *)
(* extractor extract_functions and the orchestration / fusion routine      *)
(* analyze_file.                                                           *)
(*                                                                         *)
(* Text is modelled as Python models it: a str is a sequence of            *)
(* characters (one-character strings), "\n" included.  Lines, regular      *)
(* expression matching, brace counting, split and join are computed        *)
(* character by character.                                                 *)
(***************************************************************************)
EXTENDS Integers, Sequences, FiniteSets, TLC

VARIABLES
    pc,               \* position of the running call
    file,             \* content of the file at file_path (environment)
    code,             \* local `code`
    functions,        \* local `functions`
    vuln_result,      \* local `vuln_result` (dict), <<>> before it is bound
    cwe_result,       \* local `cwe_result`
    sev_result,       \* local `sev_result`
    i,                \* loop variable of the fusion loop (0-based)
    vulnerabilities,  \* local `vulnerabilities`
    result            \* the returned dict, <<>> while running

vars == <<pc, file, code, functions, vuln_result, cwe_result, sev_result,
          i, vulnerabilities, result>>

-----------------------------------------------------------------------------
(* Bounds of the model *)

\* longest source text (in lines) given to extract_functions on its own
MaxLines == 4

\* longest file (in lines) given to analyze_file
MaxFileLines == 2

\* how many trailing entries a classifier's list may lack
MaxMissing == 1

-----------------------------------------------------------------------------
(* Characters and strings *)

NL == "\n"

\* \w of Python's re (the letters that occur in the modelled sources)
WordChars == {"f", "i", "x", "n", "t", "a"}

\* \s of Python's re
SpaceChars == {" "}

\* the line vocabulary sources are built from
LineOpen  == <<"f", "(", ")", "{">>                      \* f(){
LineClose == <<"}">>                                     \* }
LineOne   == <<"f", "(", ")", "{", "}">>                 \* f(){}
LineIf    == <<"i", "f", " ", "(", "x", ")", " ", "{">>  \* if (x) {
LineStmt  == <<"x", ";">>                                \* x;
LineBlank == <<>>                                        \* (empty line)
LineBrace == <<"{">>                                     \* {
LineTyped == <<"i", "n", "t", " ", "f", "(", "i", "n", "t", " ", "a", ")", "{">>

ExtractVocab == {LineOpen, LineClose, LineOne, LineIf, LineStmt, LineBlank,
                 LineBrace, LineTyped}

FileVocab == {LineOpen, LineClose, LineOne, LineBlank}

\* str.count(ch)
count(s, ch) == Cardinality({k \in 1..Len(s) : s[k] = ch})

\* sep.join(parts)
RECURSIVE join(_, _)
join(sep, parts) ==
    IF Len(parts) = 0 THEN <<>>
    ELSE IF Len(parts) = 1 THEN parts[1]
    ELSE parts[1] \o <<sep>> \o join(sep, Tail(parts))

\* s.split(sep) for a one-character separator
RECURSIVE split(_, _)
split(s, sep) ==
    IF \A k \in 1..Len(s) : s[k] # sep THEN <<s>>
    ELSE LET p == CHOOSE k \in 1..Len(s) :
                      /\ s[k] = sep
                      /\ \A m \in 1..(k-1) : s[m] # sep
         IN  <<SubSeq(s, 1, p - 1)>> \o split(SubSeq(s, p + 1, Len(s)), sep)

\* every character of s[a..b] lies in set S (true of an empty range)
AllIn(s, a, b, S) == \A k \in a..b : s[k] \in S

\* (\w+)\s*\([^)]*\)\s*\{  matched starting exactly at position s0
MatchCore(line, s0) ==
    \E e \in s0..Len(line) :                 \* \w+ is line[s0..e]
        /\ AllIn(line, s0, e, WordChars)
        /\ \E a \in (e+1)..Len(line) :       \* \s* then "(" at a
            /\ AllIn(line, e + 1, a - 1, SpaceChars)
            /\ line[a] = "("
            /\ \E b \in (a+1)..Len(line) :   \* [^)]* then ")" at b
                /\ \A k \in (a+1)..(b-1) : line[k] # ")"
                /\ line[b] = ")"
                /\ \E c \in (b+1)..Len(line) :  \* \s* then "{" at c
                    /\ AllIn(line, b + 1, c - 1, SpaceChars)
                    /\ line[c] = "{"

\* (\w+\s+)?  followed by the core, starting exactly at position s0
MatchAt(line, s0) ==
    \/ MatchCore(line, s0)
    \/ \E e \in s0..Len(line) : \E t \in (e+1)..Len(line) :
          /\ AllIn(line, s0, e, WordChars)
          /\ AllIn(line, e + 1, t, SpaceChars)
          /\ MatchCore(line, t + 1)

\* re.search(function_pattern, line) is not None
MatchesFunctionPattern(line) == \E s0 \in 1..Len(line) : MatchAt(line, s0)

-----------------------------------------------------------------------------
(* extract_functions *)

\* lines[j].count('{') - lines[j].count('}')
BraceDelta(line) == count(line, "{") - count(line, "}")

\* the inner loop `for j in range(i, len(lines))` from index j (0-based) on,
\* entered with the given brace_count and function_lines; yields their
\* values when the loop is left
RECURSIVE InnerLoop(_, _, _, _)
InnerLoop(lines, j, brace_count, function_lines) ==
    LET fl == Append(function_lines, lines[j + 1])
        bc == brace_count + BraceDelta(lines[j + 1])
    IN  IF bc = 0 \/ j + 1 >= Len(lines)
        THEN [brace_count |-> bc, function_lines |-> fl]
        ELSE InnerLoop(lines, j + 1, bc, fl)

\* the same dict with end_line computed as start_line + 1 + len(function_lines)
FunctionUnitEndOffByOne(start_line, function_lines) ==
    [code       |-> join(NL, function_lines),
     start_line |-> start_line + 1,
     end_line   |-> start_line + 1 + Len(function_lines)]

\* the dict appended for a complete function
FunctionUnit(start_line, function_lines) ==
    [code       |-> join(NL, function_lines),
     start_line |-> start_line + 1,
     end_line   |-> start_line + Len(function_lines)]

\* an outer loop that resumes after the lines a unit consumed
NextIndexSkipConsumed(idx, scanned) ==
    idx + (IF Len(scanned) > 0 THEN Len(scanned) ELSE 1)

\* where the outer loop goes after it handled index idx
NextIndex(idx, scanned) == idx + 1

\* the outer loop `for i, line in enumerate(lines)` from index idx (0-based)
RECURSIVE OuterLoop(_, _, _)
OuterLoop(lines, idx, acc) ==
    IF idx >= Len(lines) THEN acc
    ELSE IF MatchesFunctionPattern(lines[idx + 1])
         THEN LET r == InnerLoop(lines, idx, 0, <<>>)
              IN  IF r.brace_count = 0
                  THEN OuterLoop(lines, NextIndex(idx, r.function_lines),
                                 Append(acc, FunctionUnit(idx, r.function_lines)))
                  ELSE OuterLoop(lines, NextIndex(idx, <<>>), acc)
         ELSE OuterLoop(lines, NextIndex(idx, <<>>), acc)

\* the unit added when no function was found
WholeFileUnit(src, lines) ==
    [code |-> src, start_line |-> 1, end_line |-> Len(lines)]

\* whether the fallback branch `if not functions` of the extractor is taken
FallbackTaken(src) == OuterLoop(split(src, NL), 0, <<>>) = <<>>

extract_functions(src) ==
    LET lines == split(src, NL)
        found == OuterLoop(lines, 0, <<>>)
    IN  IF found = <<>> THEN <<WholeFileUnit(src, lines)>> ELSE found

-----------------------------------------------------------------------------
(* Source texts *)

\* all sequences of 1..n elements of S
SeqsUpTo(S, n) == UNION {[1..k -> S] : k \in 1..n}

ExtractSources == {join(NL, ls) : ls \in SeqsUpTo(ExtractVocab, MaxLines)}

FileSources == {join(NL, ls) : ls \in SeqsUpTo(FileVocab, MaxFileLines)}

-----------------------------------------------------------------------------
(* extract_functions called on its own *)

InitExtract ==
    /\ pc = "extract_call"
    /\ file = <<>>
    /\ code \in ExtractSources
    /\ functions = <<>>
    /\ vuln_result = <<>>
    /\ cwe_result = <<>>
    /\ sev_result = <<>>
    /\ i = 0
    /\ vulnerabilities = <<>>
    /\ result = <<>>

ExtractCall ==
    /\ pc = "extract_call"
    /\ functions' = extract_functions(code)
    /\ pc' = "extract_returned"
    /\ UNCHANGED <<file, code, vuln_result, cwe_result, sev_result, i,
                   vulnerabilities, result>>

NextExtract == ExtractCall

SpecExtract == InitExtract /\ [][NextExtract]_vars

-----------------------------------------------------------------------------
(* Numbers and formatting *)

\* a Python number: its kind and its value in thousandths
PyFloat(th) == [kind |-> "float", th |-> th]
PyInt(n)    == [kind |-> "int", th |-> n * 1000]

\* float(x)
pyfloat(x) == [kind |-> "float", th |-> x.th]

\* one decimal digit
Digit(d) == ToString(d)

\* f'{x:.2f}' for a non-negative number that is not a rounding tie
Format2f(x) ==
    LET h == (x.th + 5) \div 10
    IN  ToString(h \div 100) \o "." \o Digit((h % 100) \div 10) \o Digit(h % 10)

\* max(seq) of a non-empty list
pymax(seq) == CHOOSE v \in {seq[k] : k \in 1..Len(seq)} :
                  \A k \in 1..Len(seq) : seq[k] <= v

\* seq.index(v) with the last occurrence taken instead of the first
pyindexLast(seq, v) ==
    (CHOOSE k \in 1..Len(seq) :
        /\ seq[k] = v
        /\ \A m \in (k+1)..Len(seq) : seq[m] # v) - 1

\* seq.index(v), 0-based, for a v that occurs in seq
pyindex(seq, v) ==
    (CHOOSE k \in 1..Len(seq) :
        /\ seq[k] = v
        /\ \A m \in 1..(k-1) : seq[m] # v) - 1

-----------------------------------------------------------------------------
(* What the three classifiers may return *)

\* per-line score lists a classifier may give for one function
ScoreSeqs == {<<>>, <<1, 2>>, <<2, 2>>, <<1, 2, 2>>}

\* values a classifier reports for the k-th function (k from 1)
TableAt(table, k) == table[((k - 1) % Len(table)) + 1]

ProbTable     == <<PyFloat(900), PyInt(1), PyFloat(640), PyFloat(10)>>
CweIdTable    == <<"CWE-787", "CWE-20", "CWE-416", "CWE-125">>
CweProbTable  == <<PyFloat(873), PyFloat(9), PyInt(1), PyFloat(333)>>
SevClassTable == <<"High", "Low", "Critical", "None">>
SevScoreTable == <<PyFloat(7500), PyInt(9), PyFloat(3100), PyFloat(0)>>

ListOf(table, len) == [k \in 1..len |-> TableAt(table, k)]

\* lengths a classifier's lists may have for n functions
Lens(n) == {m \in 0..n : n - m <= MaxMissing}

VulnKeys == {"batch_vul_pred", "batch_vul_pred_prob", "batch_line_scores"}
CweKeys  == {"cwe_id", "cwe_id_prob"}
SevKeys  == {"batch_sev_class", "batch_sev_score"}

VulnDict(K, len, pred, scores) ==
    [key \in K |->
        CASE key = "batch_vul_pred"      -> pred
          [] key = "batch_vul_pred_prob" -> ListOf(ProbTable, len)
          [] key = "batch_line_scores"   -> scores]

CweDict(K, len) ==
    [key \in K |->
        CASE key = "cwe_id"      -> ListOf(CweIdTable, len)
          [] key = "cwe_id_prob" -> ListOf(CweProbTable, len)]

SevDict(K, len) ==
    [key \in K |->
        CASE key = "batch_sev_class" -> ListOf(SevClassTable, len)
          [] key = "batch_sev_score" -> ListOf(SevScoreTable, len)]

\* return values of main(function_codes) for n functions
VulnResults(n) ==
    UNION {UNION {{VulnDict(K, len, pred, scores) :
                       pred \in [1..len -> {0, 1}],
                       scores \in [1..len -> ScoreSeqs]} :
                  K \in SUBSET VulnKeys} :
           len \in Lens(n)}

\* return values of main_cwe(function_codes)
CweResults(n) == {CweDict(K, len) : K \in SUBSET CweKeys, len \in Lens(n)}

\* return values of main_sev(function_codes)
SevResults(n) == {SevDict(K, len) : K \in SUBSET SevKeys, len \in Lens(n)}

\* str(e) of the exceptions open()/read() and the classifiers may raise
ReadErrors == {"[Errno 13] Permission denied", "invalid start byte"}
ClassifierErrors == {"CUDA error"}

-----------------------------------------------------------------------------
(* analyze_file *)

NoError == "<none>"

\* str(KeyError(key))
KeyErrorMsg(key) == "'" \o key \o "'"

\* str(IndexError) of a list subscript
IndexErrorMsg == "list index out of range"

\* the exception raised by d[key][idx] (idx 0-based), if any
SubscriptError(d, key, idx) ==
    IF key \notin DOMAIN d THEN KeyErrorMsg(key)
    ELSE IF idx >= Len(d[key]) THEN IndexErrorMsg
    ELSE NoError

\* the exception raised by `d[key][idx] if key in d else default`, if any
GuardedSubscriptError(d, key, idx) ==
    IF key \in DOMAIN d /\ idx >= Len(d[key]) THEN IndexErrorMsg ELSE NoError

\* the value of `d[key][idx] if key in d else default`
GuardedSubscript(d, key, idx, default) ==
    IF key \in DOMAIN d THEN d[key][idx + 1] ELSE default

\* first element of a sequence of messages that is an exception
RECURSIVE FirstError(_)
FirstError(msgs) ==
    IF msgs = <<>> THEN NoError
    ELSE IF Head(msgs) # NoError THEN Head(msgs)
    ELSE FirstError(Tail(msgs))

\* the test `vuln_result['batch_vul_pred'][i] == 1`, when it does not raise
IsVulnerable(idx) == vuln_result["batch_vul_pred"][idx + 1] = 1

\* the exception raised by the test of the loop body at index idx
TestError(idx) == SubscriptError(vuln_result, "batch_vul_pred", idx)

\* the exception raised by the body of the `if` at index idx, in the order
\* the subscripts are evaluated
BodyError(idx) ==
    FirstError(<<GuardedSubscriptError(vuln_result, "batch_line_scores", idx),
                 GuardedSubscriptError(cwe_result, "cwe_id", idx),
                 GuardedSubscriptError(cwe_result, "cwe_id_prob", idx),
                 GuardedSubscriptError(sev_result, "batch_sev_class", idx),
                 GuardedSubscriptError(sev_result, "batch_sev_score", idx),
                 SubscriptError(vuln_result, "batch_vul_pred_prob", idx)>>)

\* vuln_line for the function func and its line_scores
VulnLine(func, line_scores) ==
    IF line_scores # <<>>
    THEN func.start_line + pyindex(line_scores, pymax(line_scores))
    ELSE func.start_line

OtherCweId           == "CWE-120"
DefaultCweId         == "CWE-119"
DefaultCweProb       == PyFloat(500)
DefaultSeverity      == "Medium"
DefaultSeverityScore == PyFloat(5000)

\* a finding id counted from 0
FindingIdZeroBased(idx) == "STATIC-" \o ToString(idx)

\* f'STATIC-{i+1}'
FindingId(idx) == "STATIC-" \o ToString(idx + 1)

\* the dict `vulnerability` built at index idx (0-based)
Vulnerability(idx) ==
    LET func           == functions[idx + 1]
        line_scores    == GuardedSubscript(vuln_result, "batch_line_scores", idx, <<>>)
        cwe_id         == GuardedSubscript(cwe_result, "cwe_id", idx, DefaultCweId)
        cwe_prob       == GuardedSubscript(cwe_result, "cwe_id_prob", idx, DefaultCweProb)
        severity       == GuardedSubscript(sev_result, "batch_sev_class", idx, DefaultSeverity)
        severity_score == GuardedSubscript(sev_result, "batch_sev_score", idx,
                                           DefaultSeverityScore)
    IN  [id             |-> FindingId(idx),
         type           |-> "static",
         severity       |-> severity,
         message        |-> "Potential " \o cwe_id \o " vulnerability detected",
         line           |-> VulnLine(func, line_scores),
         cweId          |-> cwe_id,
         cweDescription |-> cwe_id \o " vulnerability with " \o Format2f(cwe_prob)
                               \o " confidence",
         source         |-> "CodeGuard Static Analysis",
         probability    |-> pyfloat(vuln_result["batch_vul_pred_prob"][idx + 1]),
         severityScore  |-> pyfloat(severity_score)]

\* a list insertion at the front
PushFront(list, item) == <<item>> \o list

\* vulnerabilities.append(vulnerability)
ListAppend(list, item) == Append(list, item)

\* an except clause that returns the findings built so far
ExceptResultKeepingFindings(msg) ==
    [vulnerabilities |-> vulnerabilities,
     errors          |-> <<"Analysis failed: " \o msg>>]

\* the dict returned by the `except Exception as e` clause
ExceptResult(msg) ==
    [vulnerabilities |-> <<>>,
     errors          |-> <<"Analysis failed: " \o msg>>]

NoFunctionsResult ==
    [vulnerabilities |-> <<>>,
     errors          |-> <<"No functions found in the code">>]

Init ==
    /\ pc = "open"
    /\ file \in FileSources
    /\ code = <<>>
    /\ functions = <<>>
    /\ vuln_result = <<>>
    /\ cwe_result = <<>>
    /\ sev_result = <<>>
    /\ i = 0
    /\ vulnerabilities = <<>>
    /\ result = <<>>

\* with open(...) as f: code = f.read()
OpenRead ==
    /\ pc = "open"
    /\ code' = file
    /\ pc' = "extract"
    /\ UNCHANGED <<file, functions, vuln_result, cwe_result, sev_result, i,
                   vulnerabilities, result>>

\* open() or read() raises
OpenRaises ==
    /\ pc = "open"
    /\ \E msg \in ReadErrors : result' = ExceptResult(msg)
    /\ pc' = "done"
    /\ UNCHANGED <<file, code, functions, vuln_result, cwe_result, sev_result,
                   i, vulnerabilities>>

\* functions = extract_functions(code); if not functions: return ...
Extract ==
    /\ pc = "extract"
    /\ functions' = extract_functions(code)
    /\ IF functions' = <<>>
       THEN /\ result' = NoFunctionsResult
            /\ pc' = "done"
       ELSE /\ result' = result
            /\ pc' = "main"
    /\ UNCHANGED <<file, code, vuln_result, cwe_result, sev_result, i,
                   vulnerabilities>>

\* vuln_result = main(function_codes, gpu=False)
Main ==
    /\ pc = "main"
    /\ vuln_result' \in VulnResults(Len(functions))
    /\ pc' = "main_cwe"
    /\ UNCHANGED <<file, code, functions, cwe_result, sev_result, i,
                   vulnerabilities, result>>

\* cwe_result = main_cwe(function_codes, gpu=False)
MainCwe ==
    /\ pc = "main_cwe"
    /\ cwe_result' \in CweResults(Len(functions))
    /\ pc' = "main_sev"
    /\ UNCHANGED <<file, code, functions, vuln_result, sev_result, i,
                   vulnerabilities, result>>

\* sev_result = main_sev(function_codes, gpu=False); vulnerabilities = []
MainSev ==
    /\ pc = "main_sev"
    /\ sev_result' \in SevResults(Len(functions))
    /\ vulnerabilities' = <<>>
    /\ i' = 0
    /\ pc' = "loop"
    /\ UNCHANGED <<file, code, functions, vuln_result, cwe_result, result>>

\* one of the three classifier calls raises
ClassifierRaises ==
    /\ pc \in {"main", "main_cwe", "main_sev"}
    /\ \E msg \in ClassifierErrors : result' = ExceptResult(msg)
    /\ pc' = "done"
    /\ UNCHANGED <<file, code, functions, vuln_result, cwe_result, sev_result,
                   i, vulnerabilities>>

\* a loop iteration whose function is not flagged
LoopSkip ==
    /\ pc = "loop"
    /\ i < Len(functions)
    /\ TestError(i) = NoError
    /\ ~IsVulnerable(i)
    /\ i' = i + 1
    /\ UNCHANGED <<pc, file, code, functions, vuln_result, cwe_result,
                   sev_result, vulnerabilities, result>>

\* a loop iteration that appends a finding
LoopAppend ==
    /\ pc = "loop"
    /\ i < Len(functions)
    /\ TestError(i) = NoError
    /\ IsVulnerable(i)
    /\ BodyError(i) = NoError
    /\ vulnerabilities' = ListAppend(vulnerabilities, Vulnerability(i))
    /\ i' = i + 1
    /\ UNCHANGED <<pc, file, code, functions, vuln_result, cwe_result,
                   sev_result, result>>

\* a loop iteration that raises
LoopRaises ==
    /\ pc = "loop"
    /\ i < Len(functions)
    /\ LET msg == IF TestError(i) # NoError THEN TestError(i)
                  ELSE IF IsVulnerable(i) THEN BodyError(i) ELSE NoError
       IN  /\ msg # NoError
           /\ result' = ExceptResult(msg)
    /\ pc' = "done"
    /\ UNCHANGED <<file, code, functions, vuln_result, cwe_result, sev_result,
                   i, vulnerabilities>>

\* return {'vulnerabilities': vulnerabilities, 'errors': []}
Return ==
    /\ pc = "loop"
    /\ i >= Len(functions)
    /\ result' = [vulnerabilities |-> vulnerabilities, errors |-> <<>>]
    /\ pc' = "done"
    /\ UNCHANGED <<file, code, functions, vuln_result, cwe_result, sev_result,
                   i, vulnerabilities>>

Next ==
    \/ OpenRead
    \/ OpenRaises
    \/ Extract
    \/ Main
    \/ MainCwe
    \/ MainSev
    \/ ClassifierRaises
    \/ LoopSkip
    \/ LoopAppend
    \/ LoopRaises
    \/ Return

Spec == Init /\ [][Next]_vars

-----------------------------------------------------------------------------
(* Properties of extract_functions *)

Returned == pc = "extract_returned"

\* number of lines of a text, counted from its newline characters
LineCount(s) == count(s, NL) + 1

\* brace balance summed over lines a..b (1-based, inclusive)
RECURSIVE SumDelta(_, _, _)
SumDelta(lines, a, b) ==
    IF a > b THEN 0 ELSE BraceDelta(lines[a]) + SumDelta(lines, a + 1, b)

\* line j is the first line at which the balance running from line k is zero
ClosesAt(lines, k, j) ==
    /\ j \in k..Len(lines)
    /\ SumDelta(lines, k, j) = 0
    /\ \A m \in k..(j-1) : SumDelta(lines, k, m) # 0

\* candidate opening lines (1-based)
Candidates(lines) == {k \in 1..Len(lines) : MatchesFunctionPattern(lines[k])}

\* candidate opening lines whose running balance returns to zero
BalancedCandidates(lines) ==
    {k \in Candidates(lines) : \E j \in k..Len(lines) : ClosesAt(lines, k, j)}

\* C1 (as claimed): consecutive units returned by extract_functions never
\* overlap: the later unit starts strictly after the earlier unit ends.
C1_NoOverlap ==
    Returned =>
        \A k \in 1..(Len(functions) - 1) :
            functions[k + 1].start_line > functions[k].end_line

\* C2: extract_functions returns a non-empty list; every unit satisfies
\* 1 <= start_line <= end_line <= number of lines of the input, and the
\* unit's code has end_line - start_line + 1 lines.
C2_ExtractTotal ==
    Returned =>
        /\ Len(functions) >= 1
        /\ \A k \in 1..Len(functions) :
            /\ 1 <= functions[k].start_line
            /\ functions[k].start_line <= functions[k].end_line
            /\ functions[k].end_line <= LineCount(code)
            /\ LineCount(functions[k].code)
                   = functions[k].end_line - functions[k].start_line + 1

\* C2 witness: two units were returned for a source, one of them spanning
\* several lines and not starting on the first line.
C2_Witness ==
    /\ Returned
    /\ Len(functions) = 2
    /\ \E k \in 1..Len(functions) :
          /\ functions[k].start_line > 1
          /\ functions[k].end_line > functions[k].start_line

\* C10: the fallback branch is taken exactly when no candidate opening line
\* balances; then the whole-file unit is the only unit returned; otherwise
\* the units returned are exactly the balanced candidates, in file order,
\* each ending on the first line where its balance is zero: an unbalanced
\* candidate is dropped, suppresses nothing and adds no fallback unit.
C10_FallbackIffNoBalanced ==
    Returned =>
        LET lines == split(code, NL)
            cands == BalancedCandidates(lines)
        IN  /\ FallbackTaken(code) <=> cands = {}
            /\ cands = {} =>
                  functions = <<[code |-> code, start_line |-> 1,
                                 end_line |-> LineCount(code)]>>
            /\ cands # {} =>
                  /\ Len(functions) = Cardinality(cands)
                  /\ \A n \in 1..Len(functions) :
                        /\ functions[n].start_line \in cands
                        /\ ClosesAt(lines, functions[n].start_line,
                                    functions[n].end_line)
                        /\ functions[n].code =
                              join(NL, SubSeq(lines, functions[n].start_line,
                                              functions[n].end_line))
                  /\ \A n \in 1..(Len(functions) - 1) :
                        functions[n].start_line < functions[n + 1].start_line

\* C10 witness: a source with an unbalanced candidate and a balanced
\* candidate after it; the balanced one is returned, without a fallback.
C10_Witness ==
    /\ Returned
    /\ LET lines == split(code, NL)
       IN  \E k \in Candidates(lines) \ BalancedCandidates(lines) :
             \E m \in BalancedCandidates(lines) :
                /\ k < m
                /\ \E n \in 1..Len(functions) : functions[n].start_line = m
    /\ ~FallbackTaken(code)

-----------------------------------------------------------------------------
(* Properties of analyze_file *)

Done == pc = "done"

\* the run returned through `return {'vulnerabilities': ..., 'errors': []}`
Succeeded == Done /\ result.errors = <<>>

\* the run got as far as the fusion loop: it did not end by an exception of
\* the file read or of a classifier call
ReachedLoop ==
    /\ Done
    /\ \A msg \in ReadErrors \cup ClassifierErrors :
          result.errors # <<"Analysis failed: " \o msg>>

\* every list a classifier returned has one entry per function
FullWhenPresent(d) == \A key \in DOMAIN d : Len(d[key]) = Len(functions)

\* the 1-based indices k <= n of the functions predicted 1, ascending
RECURSIVE FlaggedUpTo(_)
FlaggedUpTo(n) ==
    IF n = 0 THEN <<>>
    ELSE IF vuln_result["batch_vul_pred"][n] = 1
         THEN Append(FlaggedUpTo(n - 1), n)
         ELSE FlaggedUpTo(n - 1)

Flagged == FlaggedUpTo(Len(functions))

\* C3: in a successful run there is exactly one finding per function whose
\* prediction is 1, none for the others, in the order of the functions: the
\* n-th finding carries the probability reported for the n-th flagged
\* function.
C3_OneFindingPerFlaggedInOrder ==
    Succeeded =>
        /\ Len(result.vulnerabilities) = Len(Flagged)
        /\ \A n \in 1..Len(Flagged) :
              result.vulnerabilities[n].probability.th =
                  vuln_result["batch_vul_pred_prob"][Flagged[n]].th

\* C3 witness: a successful run over two functions, both flagged.
C3_Witness ==
    /\ Succeeded
    /\ Len(Flagged) = 2
    /\ Len(result.vulnerabilities) = 2

\* C4 (as claimed): the k-th finding has id "STATIC-k", whatever the index
\* of its function.
C4_IdsConsecutive ==
    Succeeded =>
        \A n \in 1..Len(result.vulnerabilities) :
            result.vulnerabilities[n].id = "STATIC-" \o ToString(n)

\* C4 (amended): the id of a finding is "STATIC-" followed by the 1-based
\* index of its function in the list of extracted functions.
C4_IdIsFunctionIndex ==
    Succeeded =>
        /\ Len(result.vulnerabilities) = Len(Flagged)
        /\ \A n \in 1..Len(Flagged) :
              result.vulnerabilities[n].id = "STATIC-" \o ToString(Flagged[n])

\* C4 witness: a successful run whose first finding is for the second
\* function.
C4_Witness ==
    /\ Succeeded
    /\ Len(result.vulnerabilities) >= 1
    /\ Flagged[1] = 2

\* C5 (as claimed): an absent probability field gives findings with
\* probability 0.0, an absent is-vulnerable field gives no finding, and in
\* neither case does the run fail.
C5_AbsentVulnFieldsTolerated ==
    (/\ ReachedLoop
     /\ FullWhenPresent(vuln_result)
     /\ FullWhenPresent(cwe_result)
     /\ FullWhenPresent(sev_result))
    =>
        /\ result.errors = <<>>
        /\ "batch_vul_pred" \notin DOMAIN vuln_result =>
              result.vulnerabilities = <<>>
        /\ ("batch_vul_pred" \in DOMAIN vuln_result
              /\ "batch_vul_pred_prob" \notin DOMAIN vuln_result) =>
              /\ Len(result.vulnerabilities) = Len(Flagged)
              /\ \A n \in 1..Len(result.vulnerabilities) :
                    result.vulnerabilities[n].probability.th = 0

\* the vulnerability classifier returned both fields the loop reads
\* unguarded, and every list has one entry per function
WellFormedBundles ==
    /\ {"batch_vul_pred", "batch_vul_pred_prob"} \subseteq DOMAIN vuln_result
    /\ FullWhenPresent(vuln_result)
    /\ FullWhenPresent(cwe_result)
    /\ FullWhenPresent(sev_result)

AllErrorMsgs ==
    ReadErrors \cup ClassifierErrors \cup {IndexErrorMsg}
        \cup {KeyErrorMsg(key) : key \in VulnKeys}

\* C7: every call returns a dict; a result without errors is the one the
\* completed loop built; any failure gives no findings and exactly one
\* error "Analysis failed: <message>", so errors imply no findings.
C7_FailureGivesOneErrorNoFindings ==
    /\ ~Done => ENABLED Next
    /\ Done =>
        /\ DOMAIN result = {"vulnerabilities", "errors"}
        /\ result.errors # <<>> => result.vulnerabilities = <<>>
        /\ \/ /\ result.errors = <<>>
              /\ i = Len(functions)
              /\ result.vulnerabilities = vulnerabilities
           \/ /\ Len(result.errors) = 1
              /\ \E msg \in AllErrorMsgs :
                    result.errors[1] = "Analysis failed: " \o msg

\* C7 witness: the loop had built a finding when a later iteration raised.
C7_Witness ==
    /\ Done
    /\ result.errors # <<>>
    /\ vulnerabilities # <<>>
    /\ result.vulnerabilities = <<>>

\* C8 (as claimed): for an empty file no classifier is invoked and the
\* result is the single error "No functions found in the code"; for a
\* non-empty file that error is never returned.
C8_EmptyFileReportsNoFunctions ==
    /\ file = <<>> => pc \in {"open", "extract", "done"}
    /\ (ReachedLoop /\ file = <<>>) => result = NoFunctionsResult
    /\ (Done /\ file # <<>>) =>
          result.errors # <<"No functions found in the code">>

\* C9: the line of a finding is its function's start_line plus the lowest
\* index at which the function's line scores are maximal, and start_line
\* when the scores are absent or empty; when there are no more scores than
\* lines in the function, the line lies within [start_line, end_line].
C9_LineIsFirstMaximum ==
    Succeeded =>
        /\ Len(result.vulnerabilities) = Len(Flagged)
        /\ \A n \in 1..Len(Flagged) :
              LET k == Flagged[n]
                  u == functions[k]
                  f == result.vulnerabilities[n]
                  sc == IF "batch_line_scores" \in DOMAIN vuln_result
                        THEN vuln_result["batch_line_scores"][k] ELSE <<>>
              IN  /\ sc = <<>> => f.line = u.start_line
                  /\ sc # <<>> =>
                        \E a \in 1..Len(sc) :
                            /\ \A b \in 1..Len(sc) : sc[b] <= sc[a]
                            /\ \A b \in 1..(a-1) : sc[b] < sc[a]
                            /\ f.line = u.start_line + (a - 1)
                  /\ Len(sc) <= u.end_line - u.start_line + 1 =>
                        (u.start_line <= f.line /\ f.line <= u.end_line)

\* C9 witness: a finding for a function whose line scores attain their
\* maximum twice and are no longer than the function.
C9_Witness ==
    /\ Succeeded
    /\ "batch_line_scores" \in DOMAIN vuln_result
    /\ \E n \in 1..Len(result.vulnerabilities) :
          LET k == Flagged[n]
              u == functions[k]
              sc == vuln_result["batch_line_scores"][k]
          IN  /\ Len(sc) >= 2
              /\ Len(sc) <= u.end_line - u.start_line + 1
              /\ \E a, b \in 1..Len(sc) :
                    /\ a # b
                    /\ sc[a] = sc[b]
                    /\ \A c \in 1..Len(sc) : sc[c] <= sc[a]

====
